---- MODULE Spec2Model ----
(***************************************************************************)
(* State-machine model of the Intentive mobile client:                     *)
(*   - the auth store (src/unnamed/part_001: useAuthStore, useAuthSession),*)
(*   - the event hook (src/src/screens/HomeScreen.tsx, useEvents).         *)
(* Every asynchronous function is cut at its awaits: JavaScript runs the   *)
(* code between two awaits to completion, so each such piece is one        *)
(* atomic action; the outcome of every external call is an input.          *)
(***************************************************************************)
EXTENDS Integers, Sequences, FiniteSets, TLC

\* ------------------------------------------------------------------ bounds
MaxCalls == 3      \* handleAuthResponse invocations per behaviour
MaxPrompts == 2    \* signInWithGoogle invocations per behaviour
MaxOps == 2        \* event operations started by a signed-in user

\* ------------------------------------------------------------------ values
Null == "null"
Codes == {"c1", "c2"}
Users == {"u1", "u2"}
NullSession == [user |-> Null, code |-> Null]
\* A backend session; `code` is the authorization code whose exchange made it.
\* The account that consents to an authorization code.
UserOf(c) == IF c = "c1" THEN "u1" ELSE "u2"
Sessions == {[user |-> UserOf(c), code |-> c] : c \in Codes}

\* Rows of the remote `events` table (CalendarEvent), times in milliseconds.
EventIds == {"e1", "e2"}
HourMs == 3600000
DayMs == 24 * HourMs
BACKEND_URL == TRUE
InitialStore ==
    [e \in EventIds |->
        IF e = "e1"
        THEN [id |-> "e1", user_id |-> "u1", title |-> "t0", google_event_id |-> "g1",
              start_time |-> DayMs + 9 * HourMs, end_time |-> DayMs + 10 * HourMs]
        ELSE [id |-> "e2", user_id |-> "u2", title |-> "t0", google_event_id |-> Null,
              start_time |-> 23 * HourMs, end_time |-> DayMs + HourMs]]
\* The `updates` argument of updateEvent: a Partial<CalendarEvent>.
Patches == {[title |-> "t1"], [user_id |-> "u1"]}

VARIABLES
    \* --- useAuthStore state
    user, session, loading, authLoading, isReady, request, promptAsync,
    processedCodes,
    \* --- useAuthRequest hook state and the asynchronous calls in flight
    response, calls, prompts,
    \* --- requests issued to the outside, per authorization code
    tokenRequests, idSignIns, tokenStores,
    \* --- backend identity service
    sbSession, authEvents, subscribed,
    \* --- the getSession() call of initializeAuth, the last signOut result
    initial, signOutResult,
    \* --- remote event store and useEvents state
    store, ops, events, evLoading, selectedDate, extLog,
    \* --- change-feed channels opened by the subscription effect
    channels

authVars == <<user, session, loading, authLoading, isReady, request,
              promptAsync, processedCodes, response, calls, prompts,
              tokenRequests, idSignIns, tokenStores, sbSession, authEvents,
              subscribed, initial, signOutResult>>
eventVars == <<store, ops, events, evLoading, selectedDate, extLog, channels>>
vars == <<authVars, eventVars>>

\* ------------------------------------------------------- helper operators
SetAt(seq, i, rec) == [seq EXCEPT ![i] = rec]
Bump(f, c) == [f EXCEPT ![c] = @ + 1]

\* processedCodes.has(code)
HasCodeNever(S, c) == FALSE
HasCode(S, c) == c \in S

\* new Set(processedCodes).add(code)
AddCodeLost(S, c) == S
AddCodeReplace(S, c) == {c}
AddCode(S, c) == S \cup {c}

\* finally { set({ authLoading: false }) }: the flag after a processed call
\* has left the try block by exit path `exit`.
HandleFinallyOnSuccessOnly(exit, busy) == IF exit \in {"success", "storeNotOk"} THEN FALSE ELSE busy
HandleFinally(exit, busy) == FALSE

\* !tokenResponse.ok -> throw; !idToken -> throw; a rejected fetch throws.
TokenOutcomes == {"ok", "notOk", "noIdToken", "throw"}
TokenExchangeFailsUnchecked(out) == out \in {"notOk", "throw"}
TokenExchangeFails(out) == out \in {"notOk", "noIdToken", "throw"}
TokenExit(out) ==
    CASE out = "notOk" -> "tokenNotOk"
      [] out = "noIdToken" -> "noIdToken"
      [] OTHER -> "tokenThrow"

\* if (signInError) throw signInError; if (!data.user) throw ...
IdentityOutcomes == {"user", "error", "noUser"}
IdentityFailsErrorOnly(out) == out = "error"
IdentityFails(out) == out \in {"error", "noUser"}
IdentityExit(out) == IF out = "error" THEN "signInError" ELSE "noUser"

\* Step 3: a non-ok response is only logged; a rejected fetch lands in catch.
StoreOutcomes == {"ok", "notOk", "throw"}
StoreThrows(out) == out = "throw"
StoreExit(out) ==
    CASE out = "ok" -> "success"
      [] out = "notOk" -> "storeNotOk"
      [] OTHER -> "storeThrow"

\* signInWithGoogle after `await promptAsync()`: reset unless success.
AfterPromptKeep(type, busy) == busy
AfterPrompt(type, busy) == IF type # "success" THEN FALSE ELSE busy

PromptTypes == {"success", "cancel", "dismiss", "error"}

\* One handleAuthResponse invocation: its code, where it stands, how it left,
\* and what each external call answered.
NewCall(code, pc, exit) ==
    [code |-> code, pc |-> pc, exit |-> exit,
     token |-> "none", identity |-> "none", stored |-> "none"]
NoResponse == [type |-> Null, code |-> Null]

\* ------------------------------------------------------------------- Init
Init ==
    /\ user = Null
    /\ session = NullSession
    /\ loading = TRUE
    /\ authLoading = FALSE
    /\ isReady = FALSE
    /\ request = Null
    /\ promptAsync = FALSE
    /\ processedCodes = {}
    /\ response = NoResponse
    /\ calls = <<>>
    /\ prompts = <<>>
    /\ tokenRequests = [c \in Codes |-> 0]
    /\ idSignIns = [c \in Codes |-> 0]
    /\ tokenStores = [c \in Codes |-> 0]
    /\ sbSession = NullSession
    /\ authEvents = <<>>
    /\ subscribed = FALSE
    /\ initial = [pc |-> "idle", s |-> NullSession]
    /\ signOutResult = "none"
    /\ store = InitialStore
    /\ ops = <<>>
    /\ events = <<>>
    /\ evLoading = TRUE
    /\ selectedDate = 1
    /\ extLog = {}
    /\ channels = <<>>

\* ----------------------------------------------------------- auth actions

\* useAuthSession, first effect, run while useAuthRequest still returns a
\* null request next to its promptAsync function: setRequest(null),
\* setPromptAsync(promptAsync), setIsReady(false).
RequestLoading ==
    /\ request = Null
    /\ ~promptAsync
    /\ promptAsync' = TRUE
    /\ isReady' = FALSE
    /\ UNCHANGED <<user, session, loading, authLoading, request,
                   processedCodes, response, calls, prompts, tokenRequests,
                   idSignIns, tokenStores, sbSession, authEvents, subscribed>>
    /\ UNCHANGED <<eventVars, initial, signOutResult>>

\* useAuthSession, first effect: the request object has been built.
BuildRequest(verifier) ==
    /\ request = Null
    /\ request' = IF verifier THEN "withVerifier" ELSE "noVerifier"
    /\ promptAsync' = TRUE
    /\ isReady' = TRUE
    /\ UNCHANGED <<user, session, loading, authLoading, processedCodes,
                   response, calls, prompts, tokenRequests, idSignIns,
                   tokenStores, sbSession, authEvents, subscribed>>
    /\ UNCHANGED <<eventVars, initial, signOutResult>>

\* handleAuthResponse up to its first await: the guard, the insertion, the
\* busy flag and the token request are one synchronous piece.
HandleAuthResponse(code) ==
    /\ Len(calls) < MaxCalls
    /\ IF HasCode(processedCodes, code)
       THEN /\ calls' = Append(calls, NewCall(code, "noop", "replay"))
            /\ UNCHANGED <<processedCodes, authLoading, tokenRequests>>
       ELSE /\ processedCodes' = AddCode(processedCodes, code)
            /\ authLoading' = TRUE
            /\ tokenRequests' = Bump(tokenRequests, code)
            /\ calls' = Append(calls, NewCall(code, "token", "none"))
    /\ UNCHANGED <<user, session, loading, isReady, request, promptAsync,
                   response, prompts, idSignIns, tokenStores, sbSession,
                   authEvents, subscribed>>
    /\ UNCHANGED <<eventVars, initial, signOutResult>>

\* useAuthSession, second effect; it runs again whenever a dependency
\* changes or the component is mounted again.
ResponseEffect ==
    IF response.type = "success" /\ request = "withVerifier"
    THEN HandleAuthResponse(response.code)
    ELSE /\ response.type \in {"error", "dismiss"}
         /\ authLoading' = FALSE
         /\ UNCHANGED <<user, session, loading, isReady, request, promptAsync,
                        processedCodes, response, calls, prompts,
                        tokenRequests, idSignIns, tokenStores, sbSession,
                        authEvents, subscribed>>
         /\ UNCHANGED <<eventVars, initial, signOutResult>>

\* The call leaves the try block: catch rethrows, finally clears the flag.
Settle(i, rec, exit, ok) ==
    /\ calls' = SetAt(calls, i, [rec EXCEPT !.pc = IF ok THEN "resolved" ELSE "rejected",
                                            !.exit = exit])
    /\ authLoading' = HandleFinally(exit, authLoading)

\* The token endpoint answers (or the fetch rejects).
TokenResponse(i, out) ==
    /\ calls[i].pc = "token"
    /\ IF TokenExchangeFails(out)
       THEN /\ Settle(i, [calls[i] EXCEPT !.token = out], TokenExit(out), FALSE)
            /\ UNCHANGED idSignIns
       ELSE /\ calls' = SetAt(calls, i, [calls[i] EXCEPT !.pc = "signin", !.token = out])
            /\ idSignIns' = Bump(idSignIns, calls[i].code)
            /\ UNCHANGED authLoading
    /\ UNCHANGED <<user, session, loading, isReady, request, promptAsync,
                   processedCodes, response, prompts, tokenRequests,
                   tokenStores, sbSession, authEvents, subscribed>>
    /\ UNCHANGED <<eventVars, initial, signOutResult>>

\* set({ session, user: session?.user ?? null, loading: false }) in the
\* then-callback of getSession().
InitialSessionKeepsLoading(s) ==
    /\ session' = s
    /\ user' = s.user
    /\ loading' = loading
InitialSession(s) ==
    /\ session' = s
    /\ user' = s.user
    /\ loading' = FALSE

\* The listeners registered with onAuthStateChange are told of session s.
Notify(s) == IF subscribed THEN Append(authEvents, s) ELSE authEvents

\* supabase.auth.signInWithIdToken answers; a user means a new backend
\* session for the account that consented to the code, announced to the
\* onAuthStateChange listeners.
IdentityResponse(i, out) ==
    /\ calls[i].pc = "signin"
    /\ IF IdentityFails(out)
       THEN /\ Settle(i, [calls[i] EXCEPT !.identity = out], IdentityExit(out), FALSE)
            /\ UNCHANGED <<tokenStores, sbSession, authEvents>>
       ELSE /\ calls' = SetAt(calls, i, [calls[i] EXCEPT !.pc = "store", !.identity = out])
            /\ tokenStores' = Bump(tokenStores, calls[i].code)
            /\ sbSession' = IF out = "user"
                            THEN [user |-> UserOf(calls[i].code), code |-> calls[i].code]
                            ELSE sbSession
            /\ authEvents' = IF out = "user" THEN Notify(sbSession') ELSE authEvents
            /\ UNCHANGED authLoading
    /\ UNCHANGED <<user, session, loading, isReady, request, promptAsync,
                   processedCodes, response, prompts, tokenRequests,
                   idSignIns, subscribed>>
    /\ UNCHANGED <<eventVars, initial, signOutResult>>

\* POST /api/sync/tokens answers (or the fetch rejects).
StoreResponse(i, out) ==
    /\ calls[i].pc = "store"
    /\ Settle(i, [calls[i] EXCEPT !.stored = out], StoreExit(out), ~StoreThrows(out))
    /\ UNCHANGED <<user, session, loading, isReady, request, promptAsync,
                   processedCodes, response, prompts, tokenRequests,
                   idSignIns, tokenStores, sbSession, authEvents, subscribed>>
    /\ UNCHANGED <<eventVars, initial, signOutResult>>

\* signInWithGoogle up to `await promptAsync()`.
SignInWithGoogle ==
    /\ Len(prompts) < MaxPrompts
    /\ IF ~promptAsync
       THEN /\ prompts' = Append(prompts, [pc |-> "rejected", type |-> "notInitialized",
                                           busyAtCall |-> authLoading])
            /\ UNCHANGED authLoading
       ELSE /\ authLoading' = TRUE
            /\ prompts' = Append(prompts, [pc |-> "prompting", type |-> "none",
                                           busyAtCall |-> authLoading])
    /\ UNCHANGED <<user, session, loading, isReady, request, promptAsync,
                   processedCodes, response, calls, tokenRequests, idSignIns,
                   tokenStores, sbSession, authEvents, subscribed>>
    /\ UNCHANGED <<eventVars, initial, signOutResult>>

\* The prompt resolves with a result: the hook stores it as `response` and
\* signInWithGoogle continues.
PromptResolve(i, type, code) ==
    /\ prompts[i].pc = "prompting"
    /\ prompts' = SetAt(prompts, i, [prompts[i] EXCEPT !.pc = "resolved", !.type = type])
    /\ response' = [type |-> type, code |-> IF type = "success" THEN code ELSE Null]
    /\ authLoading' = AfterPrompt(type, authLoading)
    /\ UNCHANGED <<user, session, loading, isReady, request, promptAsync,
                   processedCodes, calls, tokenRequests, idSignIns,
                   tokenStores, sbSession, authEvents, subscribed>>
    /\ UNCHANGED <<eventVars, initial, signOutResult>>

\* The prompt throws: catch clears the flag and rethrows.
PromptThrow(i) ==
    /\ prompts[i].pc = "prompting"
    /\ prompts' = SetAt(prompts, i, [prompts[i] EXCEPT !.pc = "rejected", !.type = "throw"])
    /\ authLoading' = FALSE
    /\ UNCHANGED <<user, session, loading, isReady, request, promptAsync,
                   processedCodes, response, calls, tokenRequests, idSignIns,
                   tokenStores, sbSession, authEvents, subscribed>>
    /\ UNCHANGED <<eventVars, initial, signOutResult>>

\* initializeAuth: getSession() is called and the onAuthStateChange
\* listener is registered.  MainApp calls it once, from a mount effect.
InitializeAuth ==
    /\ initial.pc = "idle"
    /\ subscribed' = TRUE
    /\ initial' = [pc |-> "pending", s |-> sbSession]
    /\ UNCHANGED <<user, session, loading, authLoading, isReady, request,
                   promptAsync, processedCodes, response, calls, prompts,
                   tokenRequests, idSignIns, tokenStores, sbSession,
                   authEvents>>
    /\ UNCHANGED <<eventVars, signOutResult>>

\* getSession() reads the backend session at some moment before it
\* resolves: at the call or at any later moment.
GetSessionRead ==
    /\ initial.pc = "pending"
    /\ initial.s # sbSession
    /\ initial' = [initial EXCEPT !.s = sbSession]
    /\ UNCHANGED <<user, session, loading, authLoading, isReady, request,
                   promptAsync, processedCodes, response, calls, prompts,
                   tokenRequests, idSignIns, tokenStores, sbSession,
                   authEvents, subscribed>>
    /\ UNCHANGED <<eventVars, signOutResult>>

\* getSession().then(...): the callback stores what getSession read.
GetSessionThen ==
    /\ initial.pc = "pending"
    /\ initial' = [initial EXCEPT !.pc = "done"]
    /\ InitialSession(initial.s)
    /\ UNCHANGED <<authLoading, isReady, request, promptAsync, processedCodes,
                   response, calls, prompts, tokenRequests, idSignIns,
                   tokenStores, sbSession, authEvents, subscribed>>
    /\ UNCHANGED <<eventVars, signOutResult>>

\* The cleanup function initializeAuth returned: subscription.unsubscribe().
CleanupAuth ==
    /\ subscribed
    /\ subscribed' = FALSE
    /\ authEvents' = <<>>
    /\ UNCHANGED <<user, session, loading, authLoading, isReady, request,
                   promptAsync, processedCodes, response, calls, prompts,
                   tokenRequests, idSignIns, tokenStores, sbSession>>
    /\ UNCHANGED <<eventVars, initial, signOutResult>>

\* The onAuthStateChange listener of initializeAuth.
AuthListenerIgnoresNull(s) ==
    /\ session' = IF s.user = Null THEN session ELSE s
    /\ user' = IF s.user = Null THEN user ELSE s.user
    /\ loading' = FALSE
AuthListenerSessionOnly(s) ==
    /\ session' = s
    /\ user' = user
    /\ loading' = FALSE
AuthListener(s) ==
    /\ session' = s
    /\ user' = s.user
    /\ loading' = FALSE

\* The next session-change notification is delivered.
AuthStateChange ==
    /\ authEvents # <<>>
    /\ authEvents' = Tail(authEvents)
    /\ AuthListener(Head(authEvents))
    /\ UNCHANGED <<authLoading, isReady, request, promptAsync, processedCodes,
                   response, calls, prompts, tokenRequests, idSignIns,
                   tokenStores, sbSession, subscribed>>
    /\ UNCHANGED <<eventVars, initial, signOutResult>>

\* if (error) throw error
SignOutResultIgnored(ok) == "resolved"
SignOutResult(ok) == IF ok THEN "resolved" ELSE "rejected"
\* signOut: the backend invalidates the session, or rejects.
SignOut(ok) ==
    /\ sbSession # NullSession
    /\ IF ok
       THEN /\ sbSession' = NullSession
            /\ authEvents' = Notify(NullSession)
       ELSE UNCHANGED <<sbSession, authEvents>>
    /\ signOutResult' = SignOutResult(ok)
    /\ UNCHANGED <<user, session, loading, authLoading, isReady, request,
                   promptAsync, processedCodes, response, calls, prompts,
                   tokenRequests, idSignIns, tokenStores, subscribed>>
    /\ UNCHANGED <<eventVars, initial>>

NextAuth ==
    \/ RequestLoading
    \/ \E v \in BOOLEAN : BuildRequest(v)
    \/ ResponseEffect
    \/ \E i \in DOMAIN calls, out \in TokenOutcomes : TokenResponse(i, out)
    \/ \E i \in DOMAIN calls, out \in IdentityOutcomes : IdentityResponse(i, out)
    \/ \E i \in DOMAIN calls, out \in StoreOutcomes : StoreResponse(i, out)
    \/ SignInWithGoogle
    \/ \E i \in DOMAIN prompts, t \in PromptTypes, c \in Codes : PromptResolve(i, t, c)
    \/ \E i \in DOMAIN prompts : PromptThrow(i)
    \/ InitializeAuth
    \/ AuthStateChange

\* The sign-in flow of the auth store.
Spec == Init /\ [][NextAuth]_vars

\* The sign-in flow when every external call returns: the prompt and the
\* three requests of handleAuthResponse answer, and React runs the effects
\* and delivers the notifications that are due.  Calls of signInWithGoogle
\* are the user's and may never come.
ExternalCallsReturn ==
    /\ WF_vars(\E v \in BOOLEAN : BuildRequest(v))
    /\ WF_vars(ResponseEffect)
    /\ WF_vars(\E i \in DOMAIN calls, out \in TokenOutcomes : TokenResponse(i, out))
    /\ WF_vars(\E i \in DOMAIN calls, out \in IdentityOutcomes : IdentityResponse(i, out))
    /\ WF_vars(\E i \in DOMAIN calls, out \in StoreOutcomes : StoreResponse(i, out))
    /\ WF_vars(\E i \in DOMAIN prompts, t \in PromptTypes, c \in Codes : PromptResolve(i, t, c))
    /\ WF_vars(AuthStateChange)
SpecLive == Init /\ [][NextAuth]_vars /\ ExternalCallsReturn

\* The session of the store over its lifetime: initializeAuth with its
\* getSession() call, its listener and its cleanup, sign-ins through
\* handleAuthResponse, and signOut.
NextSession ==
    \/ InitializeAuth
    \/ GetSessionRead
    \/ GetSessionThen
    \/ CleanupAuth
    \/ AuthStateChange
    \/ \E ok \in BOOLEAN : SignOut(ok)
    \/ \E c \in Codes : HandleAuthResponse(c)
    \/ \E i \in DOMAIN calls, out \in TokenOutcomes : TokenResponse(i, out)
    \/ \E i \in DOMAIN calls, out \in IdentityOutcomes : IdentityResponse(i, out)
    \/ \E i \in DOMAIN calls, out \in StoreOutcomes : StoreResponse(i, out)

SpecSession == Init /\ [][NextSession]_vars

\* The same when the getSession() promise of initializeAuth resolves and
\* the notifications that are due are delivered.
SessionCallsReturn ==
    /\ WF_vars(GetSessionThen)
    /\ WF_vars(AuthStateChange)
SpecSessionLive == Init /\ [][NextSession]_vars /\ SessionCallsReturn

\* ---------------------------------------------------------- event actions

\* getUTCDayBounds(date)
StartOfDay(day) == day * DayMs
EndOfDay(day) == day * DayMs + 23 * HourMs + 59 * 60000 + 59 * 1000 + 999

\* .eq('id', id).eq('user_id', user.id)
MatchesIdOnly(row, id, uid) == row.id = id
Matches(row, id, uid) == row.id = id /\ row.user_id = uid
Matching(id, uid) == {e \in DOMAIN store : Matches(store[e], id, uid)}

\* .update(updates) on one row
ApplyPatch(row, patch) ==
    [f \in DOMAIN row |-> IF f \in DOMAIN patch THEN patch[f] ELSE row[f]]

\* The select of fetchEvents: rows of the user that overlap the day,
\* ordered by start_time ascending; the store leaves the order of rows
\* with equal start_time open.
\* Date.prototype.toISOString(): "YYYY-MM-DDTHH:mm:ss.sssZ", the date part
\* kept as the day number.
ToISOString(ms) ==
    [day |-> ms \div DayMs, hh |-> (ms % DayMs) \div HourMs,
     mm |-> (ms % HourMs) \div 60000, ss |-> (ms % 60000) \div 1000,
     sss |-> ms % 1000]
\* The store reads the literal back as a timestamp.
Timestamp(iso) ==
    iso.day * DayMs + iso.hh * HourMs + iso.mm * 60000 + iso.ss * 1000 + iso.sss
SelectedStrict(uid, day) ==
    {e \in DOMAIN store :
        /\ store[e].user_id = uid
        /\ store[e].start_time < Timestamp(ToISOString(EndOfDay(day)))
        /\ store[e].end_time > Timestamp(ToISOString(StartOfDay(day)))}
Selected(uid, day) ==
    {e \in DOMAIN store :
        /\ store[e].user_id = uid
        /\ store[e].start_time <= Timestamp(ToISOString(EndOfDay(day)))
        /\ store[e].end_time >= Timestamp(ToISOString(StartOfDay(day)))}
Before(a, b) == store[a].start_time <= store[b].start_time
RECURSIVE Ordered(_)
Ordered(S) ==
    IF S = {} THEN {<<>>}
    ELSE UNION {{<<store[first]>> \o rest : rest \in Ordered(S \ {first})} :
                   first \in {a \in S : \A b \in S : Before(a, b)}}
FetchQuery(uid, day) == Ordered(Selected(uid, day))

NewOp(op, id, patch, pc) ==
    [op |-> op, id |-> id, patch |-> patch, uid |-> user, day |-> selectedDate,
     pc |-> pc, gid |-> Null, matched |-> -1, ext |-> "none", mounted |-> TRUE]

\* The auth store's user changes: a session notification reaches the
\* listener of initializeAuth.
SessionNotification(s) ==
    /\ s.user # user
    /\ AuthListener(s)
    /\ UNCHANGED <<authLoading, isReady, request, promptAsync, processedCodes,
                   response, calls, prompts, tokenRequests, idSignIns,
                   tokenStores, sbSession, authEvents, subscribed>>
    /\ UNCHANGED <<eventVars, initial, signOutResult>>

\* updateEvent up to its first await; without a user it returns at once.
UpdateEvent(id, patch) ==
    /\ Len(ops) < MaxOps
    /\ ops' = IF user = Null THEN ops ELSE Append(ops, NewOp("update", id, patch, "update"))
    /\ UNCHANGED <<store, events, evLoading, selectedDate, extLog>>
    /\ UNCHANGED <<authVars, channels>>

\* fetchEvents up to its await, as called at the end of an operation by a
\* closure whose user is not null.
FetchStart(i, rec) ==
    /\ ops' = SetAt(ops, i, [rec EXCEPT !.pc = "fetch"])
    /\ evLoading' = IF rec.mounted THEN TRUE ELSE evLoading

\* The requests updateEvent sends to the sync proxy: its body holds the
\* store update and fetchEvents only.
UpdateRequestsSynced(rec) == {[kind |-> "update", id |-> rec.id, gid |-> rec.gid]}
UpdateRequests(rec) == {}
\* The store answers the update request.
StoreUpdate(i, ok) ==
    /\ ops[i].pc = "update"
    /\ IF ok
       THEN /\ store' = [e \in DOMAIN store |->
                            IF Matches(store[e], ops[i].id, ops[i].uid)
                            THEN ApplyPatch(store[e], ops[i].patch)
                            ELSE store[e]]
            /\ FetchStart(i, [ops[i] EXCEPT !.matched = Cardinality(Matching(ops[i].id, ops[i].uid))])
       ELSE /\ ops' = SetAt(ops, i, [ops[i] EXCEPT !.pc = "rejected"])
            /\ UNCHANGED <<store, evLoading>>
    /\ extLog' = extLog \cup UpdateRequests(ops[i])
    /\ UNCHANGED <<events, selectedDate>>
    /\ UNCHANGED <<authVars, channels>>

\* deleteEvent up to its first await; without a user it returns at once.
DeleteEvent(id) ==
    /\ Len(ops) < MaxOps
    /\ ops' = IF user = Null THEN ops ELSE Append(ops, NewOp("delete", id, <<>>, "lookup"))
    /\ UNCHANGED <<store, events, evLoading, selectedDate, extLog>>
    /\ UNCHANGED <<authVars, channels>>

\* The owner-scoped lookup answers; its error is ignored.
LookupResponse(i, ok) ==
    /\ ops[i].pc = "lookup"
    /\ LET found == IF ok THEN Matching(ops[i].id, ops[i].uid) ELSE {}
           gid == IF found = {} THEN Null
                  ELSE store[CHOOSE e \in found : TRUE].google_event_id
       IN ops' = SetAt(ops, i,
                    IF gid # Null /\ BACKEND_URL
                    THEN [ops[i] EXCEPT !.pc = "session", !.gid = gid]
                    ELSE [ops[i] EXCEPT !.pc = "delete"])
    /\ UNCHANGED <<store, events, evLoading, selectedDate, extLog>>
    /\ UNCHANGED <<authVars, channels>>

SessionOutcomes == {"token", "noToken", "throw"}
\* What an operation notes when getSession gave it no access token.
NoToken(out) == IF out = "throw" THEN "noSession" ELSE "noToken"
\* `await fetch(.../api/sync/events/{id}, {method: 'DELETE'})`: deleteEvent
\* is suspended until the request has answered or failed.
AfterExternalRequestNotAwaited == "delete"
AfterExternalRequest == "extDelete"
\* supabase.auth.getSession() answers inside deleteEvent; the external
\* request is sent only with an access token, and a throw lands in catch.
GetSessionResponse(i, out) ==
    /\ ops[i].pc = "session"
    /\ IF out = "token"
       THEN /\ ops' = SetAt(ops, i, [ops[i] EXCEPT !.pc = AfterExternalRequest, !.ext = "pending"])
            /\ extLog' = extLog \cup {[kind |-> "delete", id |-> ops[i].id, gid |-> ops[i].gid]}
       ELSE /\ ops' = SetAt(ops, i, [ops[i] EXCEPT !.pc = "delete", !.ext = NoToken(out)])
            /\ UNCHANGED extLog
    /\ UNCHANGED <<store, events, evLoading, selectedDate>>
    /\ UNCHANGED <<authVars, channels>>

ExtOutcomes == {"ok", "notOk", "throw"}
\* try { ... await fetch(...) } catch (syncError) { console.error(...) }:
\* the response is not inspected and a rejected fetch is caught.
AfterExternalDeleteUncaught(out) == IF out = "throw" THEN "rejected" ELSE "delete"
AfterExternalDeleteOkOnly(out) == IF out = "ok" THEN "delete" ELSE "rejected"
AfterExternalDelete(out) == "delete"
\* DELETE /api/sync/events/{id} answers or the fetch rejects; either way
\* deleteEvent goes on to the store delete.
ExtDeleteResponse(i, out) ==
    /\ ops[i].pc = "extDelete"
    /\ ops' = SetAt(ops, i, [ops[i] EXCEPT !.pc = AfterExternalDelete(out), !.ext = out])
    /\ UNCHANGED <<store, events, evLoading, selectedDate, extLog>>
    /\ UNCHANGED <<authVars, channels>>

\* The store answers the delete request.
StoreDelete(i, ok) ==
    /\ ops[i].pc = "delete"
    /\ IF ok
       THEN /\ store' = [e \in DOMAIN store \ Matching(ops[i].id, ops[i].uid) |-> store[e]]
            /\ FetchStart(i, [ops[i] EXCEPT !.matched = Cardinality(Matching(ops[i].id, ops[i].uid))])
       ELSE /\ ops' = SetAt(ops, i, [ops[i] EXCEPT !.pc = "rejected"])
            /\ UNCHANGED <<store, evLoading>>
    /\ UNCHANGED <<events, selectedDate, extLog>>
    /\ UNCHANGED <<authVars, channels>>

\* A direct fetchEvents call notes what its query answered.
FetchNote(rec, ok) ==
    IF rec.op # "fetch" THEN rec.ext ELSE IF ok THEN "ok" ELSE "error"
\* if (error) throw error; setEvents(data || []): the list after the query
\* answered, given the list shown before.
AfterFetchCleared(ok, rows, shown) == IF ok THEN rows ELSE <<>>
AfterFetch(ok, rows, shown) == IF ok THEN rows ELSE shown
\* The select of fetchEvents answers: setEvents on success, the error only
\* logged, loading cleared in finally.  The setters of a hook instance that
\* has been unmounted change nothing.
FetchResponse(i, ok) ==
    /\ ops[i].pc = "fetch"
    /\ \E rows \in FetchQuery(ops[i].uid, ops[i].day) :
          events' = IF ops[i].mounted THEN AfterFetch(ok, rows, events) ELSE events
    /\ evLoading' = IF ops[i].mounted THEN FALSE ELSE evLoading
    /\ ops' = SetAt(ops, i, [ops[i] EXCEPT !.pc = "resolved",
                                           !.ext = FetchNote(ops[i], ok)])
    /\ UNCHANGED <<store, selectedDate, extLog>>
    /\ UNCHANGED <<authVars, channels>>

NextEvents ==
    \/ \E s \in {NullSession} \cup Sessions :
          SessionNotification(s)
    \/ \E id \in EventIds, patch \in Patches : UpdateEvent(id, patch)
    \/ \E i \in DOMAIN ops, ok \in BOOLEAN : StoreUpdate(i, ok)
    \/ \E id \in EventIds : DeleteEvent(id)
    \/ \E i \in DOMAIN ops, ok \in BOOLEAN : LookupResponse(i, ok)
    \/ \E i \in DOMAIN ops, out \in SessionOutcomes : GetSessionResponse(i, out)
    \/ \E i \in DOMAIN ops, out \in ExtOutcomes : ExtDeleteResponse(i, out)
    \/ \E i \in DOMAIN ops, ok \in BOOLEAN : StoreDelete(i, ok)
    \/ \E i \in DOMAIN ops, ok \in BOOLEAN : FetchResponse(i, ok)

SpecEvents == Init /\ [][NextEvents]_vars

\* ------------------------------------------------------ createEvent actions

\* The subscription a run of the effect opens: its filter
\* `user_id=eq.${user.id}` and the fetchEvents closure of its callback.
Channel(uid, day) == [filter |-> uid, uid |-> uid, day |-> day]

\* A signed-in client: the state Init reaches once a session has been
\* established, the listener has stored its user, the subscription effect
\* has run and its first fetch has been answered.
AuthSignedIn ==
    /\ \E s \in Sessions :
          /\ user = s.user
          /\ session = s
          /\ sbSession = s
    /\ loading = FALSE
    /\ authLoading = FALSE
    /\ isReady = TRUE
    /\ request = "withVerifier"
    /\ promptAsync = TRUE
    /\ processedCodes = {}
    /\ response = NoResponse
    /\ calls = <<>>
    /\ prompts = <<>>
    /\ tokenRequests = [c \in Codes |-> 0]
    /\ idSignIns = [c \in Codes |-> 0]
    /\ tokenStores = [c \in Codes |-> 0]
    /\ authEvents = <<>>
    /\ subscribed = TRUE
    /\ initial = [pc |-> "done", s |-> NullSession]
    /\ signOutResult = "none"
InitSignedIn ==
    /\ AuthSignedIn
    /\ store = InitialStore
    /\ ops = <<>>
    /\ selectedDate = 1
    /\ events \in FetchQuery(user, selectedDate)
    /\ evLoading = FALSE
    /\ extLog = {}
    /\ channels = <<Channel(user, selectedDate)>>

\* Ids the store generates for inserted rows, one per operation slot.
IdPool == <<"e3", "e4", "e5">>
\* The id Google Calendar gives to a pushed event: result.googleEventId,
\* a different one for every push.
GoogleIds == <<"g2", "g3", "g4">>
NewGoogleId(i) == GoogleIds[i]
\* The `event` argument of createEvent: a Partial<CalendarEvent> that
\* carries a user_id of its own.
Drafts ==
    {[title |-> "n1", start_time |-> DayMs + 11 * HourMs, end_time |-> DayMs + 12 * HourMs,
      user_id |-> "u1"]}

\* { ...event, user_id: user.id } as stored, with the generated id.
InsertedRow(id, draft, uid) ==
    [id |-> id, user_id |-> uid, title |-> draft.title, google_event_id |-> Null,
     start_time |-> draft.start_time, end_time |-> draft.end_time]

\* The user_id a store mutation request in flight is scoped to: the insert
\* attaches user.id, update and delete filter on it, and the patch that
\* records google_event_id is filtered on the id alone.
RequestScope(rec) == IF rec.pc = "patch" THEN Null ELSE rec.uid
InScopeAnyRow(row, rec) == TRUE
InScope(row, rec) ==
    /\ row.id = rec.id
    /\ RequestScope(rec) = Null \/ row.user_id = RequestScope(rec)

\* An operation goes on to pc, which for "fetch" is the call of fetchEvents.
Continue(i, rec, pc) ==
    IF pc = "fetch"
    THEN FetchStart(i, rec)
    ELSE /\ ops' = SetAt(ops, i, [rec EXCEPT !.pc = pc])
         /\ UNCHANGED evLoading

\* createEvent up to its first await; without a user it returns at once.
CreateEvent(draft) ==
    /\ Len(ops) < MaxOps
    /\ Len(ops) < Len(IdPool)
    /\ ops' = IF user = Null THEN ops
              ELSE Append(ops, NewOp("create", IdPool[Len(ops) + 1], draft, "insert"))
    /\ UNCHANGED <<store, events, evLoading, selectedDate, extLog>>
    /\ UNCHANGED <<authVars, channels>>

\* if (error) throw error
AfterInsertUnchecked(ok) == "auth"
AfterInsert(ok) == IF ok THEN "auth" ELSE "rejected"
\* The store answers the insert (.select().single()).
StoreInsert(i, ok) ==
    /\ ops[i].pc = "insert"
    /\ store' = IF ok
                THEN [e \in DOMAIN store \cup {ops[i].id} |->
                         IF e = ops[i].id
                         THEN InsertedRow(ops[i].id, ops[i].patch, ops[i].uid)
                         ELSE store[e]]
                ELSE store
    /\ ops' = SetAt(ops, i, [ops[i] EXCEPT !.pc = AfterInsert(ok),
                                           !.matched = IF ok THEN 1 ELSE 0])
    /\ UNCHANGED <<events, evLoading, selectedDate, extLog>>
    /\ UNCHANGED <<authVars, channels>>

\* supabase.auth.getSession() answers inside createEvent: the push is sent
\* if (accessToken && BACKEND_URL && insertedEvent); a throw lands in catch.
CreateSessionResponse(i, out) ==
    /\ ops[i].pc = "auth"
    /\ IF out = "token" /\ BACKEND_URL /\ ops[i].matched = 1
       THEN /\ ops' = SetAt(ops, i, [ops[i] EXCEPT !.pc = "push", !.ext = "pending"])
            /\ extLog' = extLog \cup {[kind |-> "push", id |-> ops[i].id, gid |-> Null]}
            /\ UNCHANGED evLoading
       ELSE /\ FetchStart(i, [ops[i] EXCEPT !.ext = NoToken(out)])
            /\ UNCHANGED extLog
    /\ UNCHANGED <<store, events, selectedDate>>
    /\ UNCHANGED <<authVars, channels>>

\* POST /api/sync/events: answered ok with or without googleEventId,
\* answered not ok, or the fetch (or response.json()) threw.
PushOutcomes == {"id", "noId", "notOk", "throw"}
\* } catch (syncError) { console.error(...) } and the else branch that logs.
AfterPushUncaught(out) ==
    CASE out = "id" -> "patch"
      [] out = "throw" -> "rejected"
      [] OTHER -> "fetch"
AfterPush(out) == IF out = "id" THEN "patch" ELSE "fetch"
PushResponse(i, out) ==
    /\ ops[i].pc = "push"
    /\ Continue(i, [ops[i] EXCEPT !.ext = out,
                                  !.gid = IF out = "id" THEN NewGoogleId(i) ELSE Null],
                AfterPush(out))
    /\ UNCHANGED <<store, events, selectedDate, extLog>>
    /\ UNCHANGED <<authVars, channels>>

\* .update({ google_event_id }).eq('id', insertedEvent.id) answers; its
\* result is not inspected.
PatchResponse(i, ok) ==
    /\ ops[i].pc = "patch"
    /\ store' = IF ok
                THEN [e \in DOMAIN store |->
                         IF InScope(store[e], ops[i])
                         THEN ApplyPatch(store[e], [google_event_id |-> ops[i].gid])
                         ELSE store[e]]
                ELSE store
    /\ FetchStart(i, [ops[i] EXCEPT !.ext = IF ok THEN "patched" ELSE "patchFailed"])
    /\ UNCHANGED <<events, selectedDate, extLog>>
    /\ UNCHANGED <<authVars, channels>>

\* Rows the operations of this specification aim at: one that exists from
\* the start and the first one created.
CreateTargets == {"e1", "e3"}

NextCreate ==
    \/ \E draft \in Drafts : CreateEvent(draft)
    \/ \E i \in DOMAIN ops, ok \in BOOLEAN : StoreInsert(i, ok)
    \/ \E i \in DOMAIN ops, out \in SessionOutcomes : CreateSessionResponse(i, out)
    \/ \E i \in DOMAIN ops, out \in PushOutcomes : PushResponse(i, out)
    \/ \E i \in DOMAIN ops, ok \in BOOLEAN : PatchResponse(i, ok)
    \/ \E id \in CreateTargets : DeleteEvent(id)
    \/ \E i \in DOMAIN ops, ok \in BOOLEAN : LookupResponse(i, ok)
    \/ \E i \in DOMAIN ops, out \in SessionOutcomes : GetSessionResponse(i, out)
    \/ \E i \in DOMAIN ops, out \in ExtOutcomes : ExtDeleteResponse(i, out)
    \/ \E i \in DOMAIN ops, ok \in BOOLEAN : StoreDelete(i, ok)
    \/ \E i \in DOMAIN ops, ok \in BOOLEAN : FetchResponse(i, ok)

SpecCreate == InitSignedIn /\ [][NextCreate]_vars

\* ------------------------------------------- subscription effect, refresh

\* Days the date header can be moved to.
Days == {1, 2}

\* fetchEvents of the closure (uid, day), up to its await.
FetchOp(uid, day) ==
    [NewOp("fetch", Null, <<>>, "fetch") EXCEPT !.uid = uid, !.day = day]
FetchEvents(uid, day) ==
    IF uid = Null
    THEN UNCHANGED <<ops, evLoading>>
    ELSE /\ ops' = Append(ops, FetchOp(uid, day))
         /\ evLoading' = TRUE

\* return () => { supabase.removeChannel(channel) }: the cleanup of the
\* previous run of the effect closes the channel that run opened.
CleanupMissing(chs) == chs
Cleanup(chs) == IF chs = <<>> THEN chs ELSE SubSeq(chs, 1, Len(chs) - 1)

\* The effect on [fetchEvents, user?.id] runs again: cleanup of the
\* previous run, then, with a user, fetchEvents() and a new subscription.
SubscriptionEffect(uid, day) ==
    /\ channels' = IF uid = Null
                   THEN Cleanup(channels)
                   ELSE Append(Cleanup(channels), Channel(uid, day))
    /\ FetchEvents(uid, day)

\* The listener of initializeAuth stores another user.  React renders and
\* flushes the effects of a store update before the next task runs, so the
\* step includes them: without a user HomeScreen is unmounted, with a first
\* user it is mounted anew, and otherwise its effect runs again.
UserChanged(s) ==
    /\ s.user # user
    /\ AuthListener(s)
    /\ IF s.user = Null
       THEN /\ channels' = Cleanup(channels)
            /\ ops' = [i \in DOMAIN ops |-> [ops[i] EXCEPT !.mounted = FALSE]]
            /\ UNCHANGED <<events, evLoading, selectedDate>>
       ELSE /\ Len(ops) < MaxOps
            /\ events' = IF user = Null THEN <<>> ELSE events
            /\ selectedDate' = IF user = Null THEN 1 ELSE selectedDate
            /\ SubscriptionEffect(s.user, selectedDate')
    /\ UNCHANGED <<authLoading, isReady, request, promptAsync, processedCodes,
                   response, calls, prompts, tokenRequests, idSignIns,
                   tokenStores, sbSession, authEvents, subscribed,
                   initial, signOutResult>>
    /\ UNCHANGED <<store, extLog>>

\* navigateDate(direction): setSelectedDate, and the effect runs again
\* because fetchEvents depends on selectedDate.
NavigateDate(direction) ==
    /\ user # Null
    /\ Len(ops) < MaxOps
    /\ selectedDate + direction \in Days
    /\ selectedDate' = selectedDate + direction
    /\ SubscriptionEffect(user, selectedDate')
    /\ UNCHANGED <<store, events, extLog>>
    /\ UNCHANGED authVars

\* The change feed notifies channel k: its callback calls fetchEvents.
ChangeNotification(k) ==
    /\ Len(ops) < MaxOps
    /\ FetchEvents(channels[k].uid, channels[k].day)
    /\ UNCHANGED <<store, events, selectedDate, extLog, channels>>
    /\ UNCHANGED authVars

\* Pull to refresh: onRefresh={refresh}.
Refresh ==
    /\ user # Null
    /\ Len(ops) < MaxOps
    /\ FetchEvents(user, selectedDate)
    /\ UNCHANGED <<store, events, selectedDate, extLog, channels>>
    /\ UNCHANGED authVars

NextFeed ==
    \/ \E s \in {NullSession} \cup Sessions : UserChanged(s)
    \/ \E direction \in {-1, 1} : NavigateDate(direction)
    \/ \E k \in DOMAIN channels : ChangeNotification(k)
    \/ Refresh
    \/ \E i \in DOMAIN ops, ok \in BOOLEAN : FetchResponse(i, ok)

SpecFeed == InitSignedIn /\ [][NextFeed]_vars

\* ------------------------------------------------------ the day window

\* Start and end times around the window of day 1: the evening before, the
\* last millisecond before, the first and the last millisecond of the day,
\* and the first millisecond after.
TimePoints ==
    {23 * HourMs, DayMs - 1, DayMs, DayMs + HourMs,
     2 * DayMs - 1, 2 * DayMs, 2 * DayMs + HourMs}

\* HomeScreen has just been mounted for user u1 on one of the days: the
\* first fetch is in flight.  The row of u1 starts and ends at any two of
\* the time points.
InitWindow ==
    /\ AuthSignedIn
    /\ user = "u1"
    /\ \E from \in TimePoints, to \in TimePoints :
          /\ from <= to
          /\ store = [InitialStore EXCEPT !["e1"].start_time = from,
                                          !["e1"].end_time = to]
    /\ selectedDate \in Days
    /\ ops = <<FetchOp(user, selectedDate)>>
    /\ events = <<>>
    /\ evLoading = TRUE
    /\ extLog = {}
    /\ channels = <<Channel(user, selectedDate)>>

NextWindow ==
    \/ Refresh
    \/ \E k \in DOMAIN channels : ChangeNotification(k)
    \/ \E i \in DOMAIN ops, ok \in BOOLEAN : FetchResponse(i, ok)

SpecWindow == InitWindow /\ [][NextWindow]_vars

\* ================================================================= claims
Processed(i) == calls[i].pc # "noop"
InFlight(i) == calls[i].pc \in {"token", "signin", "store"}

\* --- C1 ---------------------------------------------------------------
\* A handleAuthResponse invocation whose code is already in processedCodes.
ReplayStep ==
    /\ Len(calls') = Len(calls) + 1
    /\ calls'[Len(calls')].code \in processedCodes
\* C1: for every authorization code the token exchange and the identity
\* sign-in are each requested at most once, and a handleAuthResponse call
\* with a code already seen returns as a no-op: no request of any kind and
\* no change of the store.
C1_ReplayIdempotent ==
    /\ [](\A c \in Codes : tokenRequests[c] <= 1 /\ idSignIns[c] <= 1)
    /\ [][ReplayStep =>
            /\ calls'[Len(calls')].pc = "noop"
            /\ UNCHANGED <<user, session, loading, authLoading, isReady,
                           request, promptAsync, processedCodes, response,
                           prompts, tokenRequests, idSignIns, tokenStores,
                           sbSession, authEvents, subscribed>>]_vars
\* A code was exchanged, signed in, and then replayed.
C1_Witness ==
    \E i, j \in DOMAIN calls :
        /\ i < j
        /\ calls[i].code = calls[j].code
        /\ calls[i].identity = "user"
        /\ calls[j].pc = "noop"
        /\ tokenRequests[calls[i].code] = 1
        /\ idSignIns[calls[i].code] = 1

\* --- C2 ---------------------------------------------------------------
\* C2: of all the invocations started for one code, interleaved at any
\* await, exactly one proceeds to the token exchange; the others are no-ops.
C2_InsertIfAbsent ==
    \A c \in Codes :
        (\E i \in DOMAIN calls : calls[i].code = c)
            => Cardinality({i \in DOMAIN calls : calls[i].code = c /\ Processed(i)}) = 1
\* A second invocation for the code arrived while the first was suspended
\* at the token request.
C2_Witness ==
    \E i, j \in DOMAIN calls :
        /\ i # j
        /\ calls[i].code = calls[j].code
        /\ calls[i].pc = "token"
        /\ calls[j].pc = "noop"

\* --- C3 ---------------------------------------------------------------
\* C3: at the step in which a processed handleAuthResponse call returns or
\* rejects, by whichever exit path, authLoading is false.
C3_BusyClearedOnEveryExit ==
    [][\A i \in DOMAIN calls :
          (InFlight(i) /\ calls'[i].pc \in {"resolved", "rejected"})
              => authLoading' = FALSE]_vars
\* Two calls have left by failure paths (token storage threw, token exchange
\* not ok) and the flag is clear.
C3_Witness ==
    /\ \E i \in DOMAIN calls : calls[i].exit = "storeThrow"
    /\ \E i \in DOMAIN calls : calls[i].exit \in {"tokenNotOk", "noIdToken", "signInError", "noUser"}
    /\ authLoading = FALSE

\* --- C4 ---------------------------------------------------------------
\* C4: a signInWithGoogle call made while authLoading is true is rejected
\* with AlreadyInProgress and opens no prompt.
C4_BusyCallRejected ==
    \A i \in DOMAIN prompts :
        prompts[i].busyAtCall
            => prompts[i].pc = "rejected" /\ prompts[i].type = "AlreadyInProgress"

\* --- C5 ---------------------------------------------------------------
\* C5: when the prompt ends without success (cancel, dismiss, error, throw)
\* authLoading is false as signInWithGoogle completes and the request stays
\* usable, and a signInWithGoogle call on a built request opens a prompt.
C5_CancelReleasesBusy ==
    [][/\ \A i \in DOMAIN prompts :
            (prompts[i].pc = "prompting" /\ prompts'[i].pc # "prompting"
                /\ prompts'[i].type # "success")
                => (authLoading' = FALSE /\ promptAsync')
       /\ (promptAsync /\ Len(prompts') = Len(prompts) + 1)
            => prompts'[Len(prompts')].pc = "prompting"]_vars
\* A prompt was cancelled and a later call, made with the flag clear, has
\* its prompt open.
C5_Witness ==
    \E i, j \in DOMAIN prompts :
        /\ i < j
        /\ prompts[i].type \in {"cancel", "dismiss", "error", "throw"}
        /\ prompts[j].pc = "prompting"
        /\ ~prompts[j].busyAtCall

\* --- C6 ---------------------------------------------------------------
OriginatedBy(c) ==
    \/ session.code = c
    \/ sbSession.code = c
    \/ \E k \in DOMAIN authEvents : authEvents[k].code = c
\* C6: a call whose token request failed, was not ok, or carried no id_token
\* has rejected; no identity sign-in and no token-storage request was made
\* for its code, and no session comes from it.
C6_TokenFailureStops ==
    \A i \in DOMAIN calls :
        calls[i].token \in {"notOk", "noIdToken", "throw"}
            => /\ calls[i].pc = "rejected"
               /\ idSignIns[calls[i].code] = 0
               /\ tokenStores[calls[i].code] = 0
               /\ ~OriginatedBy(calls[i].code)
\* One token response without id_token and one that was not ok.
C6_Witness ==
    /\ \E i \in DOMAIN calls : calls[i].token = "noIdToken"
    /\ \E i \in DOMAIN calls : calls[i].token = "notOk"

\* --- C7 ---------------------------------------------------------------
\* C7: a call whose identity sign-in returned an error or no user has
\* rejected and made no token-storage request; a token-storage request
\* exists only for a code whose identity sign-in returned a user.
C7_IdentityFailureStops ==
    /\ \A i \in DOMAIN calls :
          calls[i].identity \in {"error", "noUser"}
              => calls[i].pc = "rejected" /\ tokenStores[calls[i].code] = 0
    /\ \A c \in Codes :
          tokenStores[c] > 0
              => \E i \in DOMAIN calls : calls[i].code = c /\ calls[i].identity = "user"
\* One sign-in without user, and another code that reached token storage.
C7_Witness ==
    /\ \E i \in DOMAIN calls : calls[i].identity = "noUser"
    /\ \E c \in Codes : tokenStores[c] = 1

\* --- C8 ---------------------------------------------------------------
\* C8: once the identity sign-in returned a user, a token-storage failure
\* (non-2xx response or rejected request) leaves handleAuthResponse
\* resolved, never rejected.
C8_StorageFailureNotFatal ==
    \A i \in DOMAIN calls :
        (calls[i].identity = "user" /\ calls[i].stored \in {"notOk", "throw"})
            => calls[i].pc = "resolved"

\* --- C9 ---------------------------------------------------------------
\* C9: no step of an updateEvent or deleteEvent call made by user u2
\* removes or changes a row owned by another user.
C9_OwnershipIsolation ==
    [][\A i \in DOMAIN ops :
          (ops[i].op \in {"update", "delete"} /\ ops'[i] # ops[i])
              => \A e \in DOMAIN store :
                    store[e].user_id # ops[i].uid
                        => (e \in DOMAIN store' /\ store'[e] = store[e])]_vars
\* The store has answered an update and a delete that another user aimed at
\* a row, without error, and the row is still there.
C9_Witness ==
    /\ \E i \in DOMAIN ops :
          /\ ops[i].op = "update" /\ ops[i].pc \in {"fetch", "resolved"}
          /\ ops[i].id \in DOMAIN store /\ store[ops[i].id].user_id # ops[i].uid
          /\ store[ops[i].id] = InitialStore[ops[i].id]
    /\ \E i \in DOMAIN ops :
          /\ ops[i].op = "delete" /\ ops[i].pc \in {"fetch", "resolved"}
          /\ ops[i].id \in DOMAIN store /\ store[ops[i].id].user_id # ops[i].uid
          /\ store[ops[i].id] = InitialStore[ops[i].id]

\* --- C10 --------------------------------------------------------------
\* C10: an updateEvent or deleteEvent call whose store request matched no
\* row (missing, or owned by another user) has failed, and a call resolves
\* only after its request matched a row.
C10_NoMatchFails ==
    \A i \in DOMAIN ops :
        /\ ops[i].matched = 0 => ops[i].pc = "rejected"
        /\ ops[i].pc = "resolved" => ops[i].matched = 1

\* --- C11 --------------------------------------------------------------
\* The row a createEvent call inserted, while it is in the store.
Kept(i) ==
    ops[i].id \in DOMAIN store
        => /\ ops[i].id \in DOMAIN store'
           /\ \A f \in DOMAIN store[ops[i].id] \ {"google_event_id"} :
                 store'[ops[i].id][f] = store[ops[i].id][f]
\* The day window of the call's trailing fetch overlaps its row.
InWindow(i) ==
    /\ ops[i].id \in DOMAIN store
    /\ store[ops[i].id].user_id = ops[i].uid
    /\ store[ops[i].id].start_time <= EndOfDay(ops[i].day)
    /\ store[ops[i].id].end_time >= StartOfDay(ops[i].day)
\* C11: a createEvent call whose insert succeeded never rejects, whatever
\* getSession, the push and the google_event_id patch answer; none of its
\* later steps removes its row or changes a field other than
\* google_event_id; and its trailing fetch, unless the query itself fails,
\* returns the row when the day window overlaps it.
C11_LocalDurability ==
    /\ [](\A i \in DOMAIN ops :
            (ops[i].op = "create" /\ ops[i].matched = 1) => ops[i].pc # "rejected")
    /\ [][\A i \in DOMAIN ops :
            (ops[i].op = "create" /\ ops[i].matched = 1 /\ ops'[i] # ops[i])
                => /\ Kept(i)
                   /\ (ops'[i].pc = "resolved" /\ InWindow(i))
                        => \/ \E k \in DOMAIN events' : events'[k].id = ops[i].id
                           \/ events' = events]_vars
\* One call resolved after its push threw and another after its patch
\* failed; both rows are stored and the fetched list shows them.
C11_Witness ==
    \E i, j \in DOMAIN ops :
        /\ ops[i].op = "create" /\ ops[i].pc = "resolved" /\ ops[i].ext = "throw"
        /\ ops[j].op = "create" /\ ops[j].pc = "resolved" /\ ops[j].ext = "patchFailed"
        /\ {ops[i].id, ops[j].id} \subseteq DOMAIN store
        /\ {ops[i].id, ops[j].id} \subseteq {events[k].id : k \in DOMAIN events}

\* --- C12 --------------------------------------------------------------
\* C12: a createEvent call whose insert failed has rejected; no row with
\* its id is in the store and no push was sent for it.
C12_InsertFailureStops ==
    \A i \in DOMAIN ops :
        (ops[i].op = "create" /\ ops[i].matched = 0)
            => /\ ops[i].pc = "rejected"
               /\ ops[i].id \notin DOMAIN store
               /\ \A x \in extLog : ~(x.kind = "push" /\ x.id = ops[i].id)
\* An insert failed while another call of the same user got as far as its
\* push.
C12_Witness ==
    \E i, j \in DOMAIN ops :
        /\ ops[i].op = "create" /\ ops[i].matched = 0
        /\ ops[j].op = "create" /\ ops[j].ext = "pending"

\* --- C13 --------------------------------------------------------------
\* C13: a deleteEvent call whose lookup found the caller's row with a
\* google_event_id goes from getSession and from the external DELETE on to
\* the store delete whatever they answer; the store delete, unless the store
\* itself reports an error, removes the row; and the call then resolves.
C13_DeleteDespiteExternalFailure ==
    [][\A i \in DOMAIN ops :
          (ops[i].op = "delete" /\ ops[i].gid # Null /\ ops'[i] # ops[i])
              => /\ ops[i].pc \in {"session", "extDelete"}
                      => ops'[i].pc \in {"extDelete", "delete"}
                 /\ (ops[i].pc = "delete" /\ ops'[i].pc # "rejected")
                      => \A e \in Matching(ops[i].id, ops[i].uid) : e \notin DOMAIN store'
                 /\ ops[i].pc = "fetch" => ops'[i].pc = "resolved"]_vars
\* The external DELETE of one call threw and that of another was answered
\* not ok; the row is gone and both calls resolved.
C13_Witness ==
    \E i, j \in DOMAIN ops :
        /\ ops[i].op = "delete" /\ ops[i].ext = "throw"
        /\ ops[i].pc = "resolved" /\ ops[i].matched = 1
        /\ ops[j].op = "delete" /\ ops[j].ext = "notOk" /\ ops[j].pc = "resolved"
        /\ ops[i].id = ops[j].id
        /\ ops[i].id \notin DOMAIN store

\* --- C14 --------------------------------------------------------------
\* The external deletion request of call i.
ExternalRequest(i) == [kind |-> "delete", id |-> ops[i].id, gid |-> ops[i].gid]
\* C14 as stated: whenever the store delete of a deleteEvent call is in
\* flight for a row of the caller that carries a google_event_id, an
\* external DELETE for that row and id has been sent and has answered.
C14_ExternalAlwaysAttempted ==
    \A i \in DOMAIN ops :
        (ops[i].op = "delete" /\ ops[i].pc = "delete")
            => \A e \in Matching(ops[i].id, ops[i].uid) :
                  store[e].google_event_id # Null
                      => /\ [kind |-> "delete", id |-> e, gid |-> store[e].google_event_id] \in extLog
                         /\ ops[i].ext \in ExtOutcomes
\* C14, amended: once a deleteEvent call has issued its store delete, no
\* external DELETE of it is still pending; if its lookup returned a
\* google_event_id and getSession gave an access token, the external DELETE
\* was sent and has answered or failed; otherwise the call sent none.
C14_ExternalBeforeStore ==
    \A i \in DOMAIN ops :
        (ops[i].op = "delete" /\ ops[i].pc \in {"delete", "fetch", "resolved", "rejected"})
            => IF ops[i].gid # Null /\ ops[i].ext \notin {"noToken", "noSession"}
               THEN ops[i].ext \in ExtOutcomes /\ ExternalRequest(i) \in extLog
               ELSE ops[i].ext \in {"none", "noToken", "noSession"}
\* A store delete is in flight after the external DELETE was answered not
\* ok, and another one for which getSession gave no token.
C14_Witness ==
    \E i, j \in DOMAIN ops :
        /\ ops[i].op = "delete" /\ ops[i].pc = "delete" /\ ops[i].ext = "notOk"
        /\ ExternalRequest(i) \in extLog
        /\ ops[j].op = "delete" /\ ops[j].pc = "delete" /\ ops[j].ext = "noToken"
        /\ ops[i].id \in DOMAIN store

\* --- C15 --------------------------------------------------------------
\* The store without the google_event_id column.
Strip(st) ==
    [e \in DOMAIN st |->
        [f \in DOMAIN st[e] \ {"google_event_id"} |-> st[e][f]]]
\* Where an operation waits for getSession, for the external service, or
\* for the patch that records the external id.
ExternalStages == {"auth", "push", "patch", "session", "extDelete"}
\* C15: the answer to an external call never decides what the store holds
\* apart from google_event_id.  A step in which an operation receives the
\* answer of getSession, of the push, of the external DELETE or of the
\* google_event_id patch leaves every record and every other field as it
\* was, and whatever the answer the operation goes on: createEvent, whose
\* insert is already done, to its fetch, and deleteEvent to its store delete.
C15_StoreIndependentOfExternal ==
    [][\A i \in DOMAIN ops :
          (ops[i].pc \in ExternalStages /\ ops'[i] # ops[i])
              => /\ Strip(store') = Strip(store)
                 /\ ops[i].op = "create" => ops'[i].pc \in {"push", "patch", "fetch"}
                 /\ ops[i].op = "delete" => ops'[i].pc \in {"extDelete", "delete"}]_vars
\* A createEvent whose push was answered not ok and a deleteEvent whose
\* external DELETE threw have both resolved: the created row is stored and
\* the deleted one is gone.
C15_Witness ==
    \E i, j \in DOMAIN ops :
        /\ ops[i].op = "create" /\ ops[i].pc = "resolved" /\ ops[i].ext = "notOk"
        /\ ops[i].id \in DOMAIN store
        /\ ops[j].op = "delete" /\ ops[j].pc = "resolved" /\ ops[j].ext = "throw"
        /\ ops[j].matched = 1 /\ ops[j].id \notin DOMAIN store

\* --- C16 --------------------------------------------------------------
\* C16: every store mutation a createEvent, updateEvent or deleteEvent call
\* has in flight (insert, update, delete, google_event_id patch) is scoped
\* to the user_id of the calling user.
C16_MutationsScoped ==
    \A i \in DOMAIN ops :
        ops[i].pc \in {"insert", "update", "delete", "patch"}
            => RequestScope(ops[i]) = ops[i].uid

\* --- C17 --------------------------------------------------------------
\* The row of the signed-in user overlaps the window of the selected day,
\* [D 00:00:00.000, D 23:59:59.999].
Overlaps(e) ==
    /\ store[e].start_time <= selectedDate * 86400000 + 86399999
    /\ store[e].end_time >= selectedDate * 86400000
Listed(e) == \E k \in DOMAIN events : events[k].id = e
\* C17: once a fetchEvents query has been answered without error, the
\* fetched list holds a row exactly if it belongs to the user, starts at or
\* before the end of the window and ends at or after its start.
C17_WindowOverlap ==
    (\E i \in DOMAIN ops : ops[i].ext = "ok")
        => \A e \in DOMAIN store :
              Listed(e) <=> (store[e].user_id = user /\ Overlaps(e))
\* Day 1 is selected and the fetched list holds the row that runs from
\* 23:00 of the day before to 01:00.
C17_Witness ==
    /\ selectedDate = 1
    /\ \E k \in DOMAIN events :
          /\ events[k].start_time = 23 * HourMs
          /\ events[k].end_time = DayMs + HourMs
          /\ events[k].user_id = user

\* --- C18 --------------------------------------------------------------
\* C18: a fetchEvents call whose store query failed has failed towards its
\* caller.
C18_FetchErrorSurfaced ==
    \A i \in DOMAIN ops :
        (ops[i].op = "fetch" /\ ops[i].ext = "error") => ops[i].pc = "rejected"

\* --- C19 --------------------------------------------------------------
\* C19: at most one channel is open, and only while a user is signed in;
\* its filter and the closure of its callback are those of the current user
\* and the selected day; and every fetch that starts, whether from the
\* effect, a notification or a refresh, is for the user of that moment, so
\* none is started on behalf of a previous user.
C19_SingleSubscription ==
    /\ [](/\ Len(channels) <= 1
          /\ user = Null => channels = <<>>
          /\ \A k \in DOMAIN channels :
                channels[k] = Channel(user, selectedDate))
    /\ [][Len(ops') > Len(ops) => ops'[Len(ops')].uid = user']_vars
\* The user changed from u1, whose rows are still listed, to u2; the one
\* open channel is that of u2, and a notification on it started a fetch.
C19_Witness ==
    /\ user = "u2"
    /\ \E k \in DOMAIN events : events[k].user_id = "u1"
    /\ channels = <<Channel("u2", selectedDate)>>
    /\ Len(ops) = 2
    /\ \A i \in DOMAIN ops : ops[i].uid = "u2" /\ ops[i].pc = "fetch"

\* --- C20 --------------------------------------------------------------
\* C20: at most one fetchEvents query is in flight for one user and day.
C20_NoOverlappingRefresh ==
    \A i, j \in DOMAIN ops :
        (/\ ops[i].pc = "fetch" /\ ops[j].pc = "fetch"
         /\ ops[i].uid = ops[j].uid /\ ops[i].day = ops[j].day)
            => i = j

\* --- C21 --------------------------------------------------------------
\* The listener registered by initializeAuth receives the notification at
\* the head of the queue.
Delivered(s) ==
    /\ authEvents # <<>>
    /\ Head(authEvents) = s
    /\ authEvents' = Tail(authEvents)
    /\ subscribed'
\* C21: the step in which the null-session notification of a successful
\* signOut reaches the listener leaves user = null and session = null.
C21_SignOutClearsSession ==
    [][Delivered(NullSession) => (user' = Null /\ session' = NullSession)]_vars
\* getSession() had stored a session; a signOut succeeded, its notification
\* has been delivered, and the store is signed out.
C21_Witness ==
    /\ initial.pc = "done" /\ initial.s # NullSession
    /\ signOutResult = "resolved"
    /\ sbSession = NullSession
    /\ subscribed /\ authEvents = <<>>
    /\ user = Null /\ session = NullSession

\* --- C22 --------------------------------------------------------------
\* C22: a signOut call fails exactly if the backend did not invalidate the
\* session, and no signOut call, failed or not, changes user, session,
\* authLoading or processedCodes.
C22_SignOutRejected ==
    [][signOutResult' # signOutResult
          => /\ signOutResult' = "rejected" <=> sbSession' = sbSession
             /\ UNCHANGED <<user, session, authLoading, processedCodes>>]_vars
\* A signOut was rejected: the backend session and the store still hold the
\* signed-in user.
C22_Witness ==
    /\ signOutResult = "rejected"
    /\ sbSession # NullSession
    /\ session = sbSession
    /\ user = sbSession.user

\* --- C23 --------------------------------------------------------------
\* C23: user is the user of session, null exactly when session is null, and
\* a notification that reaches the listener replaces session by the session
\* notified and user by its user.
C23_UserMatchesSession ==
    /\ [](/\ user = session.user
          /\ session.user = Null => session = NullSession)
    /\ [][\A s \in {NullSession} \cup Sessions :
            Delivered(s) => (session' = s /\ user' = s.user)]_vars
\* getSession() had stored the session made with code c1; the notification
\* of the sign-in with c2 has replaced it.
C23_Witness ==
    /\ initial.pc = "done" /\ initial.s.code = "c1"
    /\ session = [user |-> "u2", code |-> "c2"]
    /\ user = "u2"
    /\ authEvents = <<>>

\* --- C24 --------------------------------------------------------------
\* C24: no step of an updateEvent call sends a request to the sync proxy;
\* a step of the call changes stored rows only by applying the patch to the
\* rows with the given id and the caller's user id, and changes the
\* displayed events only as the answer of its re-fetch.
C24_UpdateStoreOnly ==
    [][/\ (Len(ops') > Len(ops) /\ ops'[Len(ops')].op = "update")
            => UNCHANGED <<extLog, store, events>>
       /\ \A i \in DOMAIN ops :
            (ops[i].op = "update" /\ ops'[i] # ops[i])
               => /\ extLog' = extLog
                  /\ DOMAIN store' = DOMAIN store
                  /\ \A e \in DOMAIN store :
                        store'[e] # store[e]
                           => /\ Matches(store[e], ops[i].id, ops[i].uid)
                              /\ store'[e] = ApplyPatch(store[e], ops[i].patch)
                  /\ events' # events => ops[i].pc = "fetch"]_vars
\* The owner has renamed a row that is linked to an external event; the
\* call has resolved and nothing was sent to the sync proxy.
C24_Witness ==
    \E i \in DOMAIN ops :
        /\ ops[i].op = "update" /\ ops[i].pc = "resolved"
        /\ ops[i].id \in DOMAIN store
        /\ store[ops[i].id].user_id = ops[i].uid
        /\ store[ops[i].id].google_event_id # Null
        /\ ops[i].patch = [title |-> "t1"]
        /\ store[ops[i].id].title = "t1"
        /\ extLog = {}

\* --- C25 --------------------------------------------------------------
\* A handleAuthResponse call for code c has completed: it returned at the
\* guard, resolved, or rejected.
Completed(c) ==
    \E i \in DOMAIN calls :
        calls[i].code = c /\ calls[i].pc \in {"noop", "resolved", "rejected"}
\* C25: from the moment the prompt has resolved with success until the
\* handleAuthResponse call for the returned code has completed, authLoading
\* is true.
C25_BusyUntilExchangeDone ==
    (/\ response.type = "success"
     /\ request = "withVerifier"
     /\ ~Completed(response.code))
        => authLoading

\* --- C26 --------------------------------------------------------------
\* C26: when every external call returns, authLoading, once true, becomes
\* false again (or the bound on handleAuthResponse calls has been reached).
C26_BusyEventuallyCleared ==
    authLoading ~> (~authLoading \/ Len(calls) = MaxCalls)

\* --- C27 --------------------------------------------------------------
\* A prompt is waiting for its result, or a handleAuthResponse call is
\* between its first request and its finally block.
AttemptInFlight ==
    \/ \E i \in DOMAIN prompts : prompts[i].pc = "prompting"
    \/ \E i \in DOMAIN calls : calls[i].pc \in {"token", "signin", "store"}
\* C27: while a prompt is pending or a code exchange is in flight,
\* authLoading is true.
C27_BusyWhileInFlight == AttemptInFlight => authLoading

\* --- C28 --------------------------------------------------------------
\* C28: when no fetchEvents call is in flight and the call issued last has
\* succeeded, the displayed events are the rows that call asked for.
C28_LatestRequestWins ==
    (/\ ops # <<>>
     /\ \A i \in DOMAIN ops : ops[i].pc = "resolved"
     /\ ops[Len(ops)].op = "fetch"
     /\ ops[Len(ops)].ext = "ok"
     /\ ops[Len(ops)].mounted)
        => events \in FetchQuery(ops[Len(ops)].uid, ops[Len(ops)].day)

\* --- C29 --------------------------------------------------------------
\* The then-callback of the getSession() call of initializeAuth runs.
GetSessionResolves == initial.pc = "pending" /\ initial'.pc = "done"
\* C29: the then-callback of getSession() writes neither after the cleanup
\* function has run, nor over the backend's current session once a
\* notification has stored it.
C29_NoStaleSessionWrite ==
    [][GetSessionResolves
          => /\ ~subscribed => UNCHANGED <<user, session>>
             /\ (~loading /\ session = sbSession) => UNCHANGED <<user, session>>]_vars

\* --- C30 --------------------------------------------------------------
\* C30: no step removes a code from processedCodes; the code of every call
\* that went past the guard is in the set, from the step that sends its
\* token request on; and of the calls made with one code only the first
\* goes past the guard, whether it failed or not, so no code is sent to
\* the token endpoint twice.
C30_ProcessedCodesGrow ==
    /\ [][processedCodes \subseteq processedCodes']_vars
    /\ [](/\ \A i \in DOMAIN calls :
                calls[i].pc # "noop" => calls[i].code \in processedCodes
          /\ \A i, j \in DOMAIN calls :
                (i < j /\ calls[i].code = calls[j].code) => calls[j].pc = "noop"
          /\ \A c \in Codes : tokenRequests[c] <= 1)
\* The exchange of c1 failed, a sign-in with c2 succeeded and was signed
\* out, and a later call with c1 returned at the guard: both codes are
\* still in processedCodes.
C30_Witness ==
    /\ Len(calls) = 3
    /\ calls[1].code = "c1" /\ calls[1].pc = "rejected"
    /\ calls[2].code = "c2" /\ calls[2].identity = "user"
    /\ calls[3].code = "c1" /\ calls[3].pc = "noop"
    /\ signOutResult = "resolved"
    /\ processedCodes = {"c1", "c2"}

C32_OwnerFixed ==
    [][\A e \in DOMAIN store \cap DOMAIN store' :
          store'[e].user_id = store[e].user_id]_vars

\* --- C33 --------------------------------------------------------------
\* C33: the lookup of a deleteEvent call yields a google_event_id only from
\* a row with the given id that the caller owns; every external DELETE in
\* the log was sent by a deleteEvent call for the id and the
\* google_event_id its lookup yielded; and a call whose lookup yielded none
\* sends no external DELETE.
C33_ExternalDeleteOwnerOnly ==
    /\ [][\A i \in DOMAIN ops :
            (ops[i].pc = "lookup" /\ ops'[i].gid # Null)
               => \E e \in DOMAIN store :
                     /\ store[e].id = ops[i].id
                     /\ store[e].user_id = ops[i].uid
                     /\ store[e].google_event_id = ops'[i].gid]_vars
    /\ [][\A x \in extLog' \ extLog :
            x.kind = "delete"
               => \E i \in DOMAIN ops :
                     /\ ops[i].op = "delete" /\ ops[i].pc = "session"
                     /\ ops[i].gid # Null
                     /\ x = [kind |-> "delete", id |-> ops[i].id, gid |-> ops[i].gid]]_vars
    /\ [](\A i \in DOMAIN ops :
            (ops[i].op = "delete" /\ ops[i].gid = Null)
               => ops[i].pc \notin {"session", "extDelete"} /\ ops[i].ext = "none")
\* u2 asked to delete row e1 of u1, which carries g1: the call resolved
\* having sent nothing, and the row is still there; then u1 asked the same
\* and the external DELETE for g1 was sent.
C33_Witness ==
    /\ Len(ops) = 2
    /\ ops[1].op = "delete" /\ ops[1].uid = "u2" /\ ops[1].id = "e1"
    /\ ops[1].pc = "resolved" /\ ops[1].gid = Null
    /\ ops[2].op = "delete" /\ ops[2].uid = "u1" /\ ops[2].id = "e1"
    /\ ops[2].ext = "pending"
    /\ extLog = {[kind |-> "delete", id |-> "e1", gid |-> "g1"]}
    /\ "e1" \in DOMAIN store

\* --- C34 --------------------------------------------------------------
\* C34: a signInWithGoogle call made while no promptAsync is stored is
\* rejected, opens no prompt and leaves authLoading false; and authLoading
\* goes from false to true only when the request has been built (isReady).
C34_BusyOnlyWhenReady ==
    /\ [](\A i \in DOMAIN prompts :
            prompts[i].type = "notInitialized"
               => prompts[i].pc = "rejected" /\ ~prompts[i].busyAtCall)
    /\ [][(~promptAsync /\ Len(prompts') > Len(prompts))
            => /\ prompts'[Len(prompts')].pc = "rejected"
               /\ authLoading' = FALSE]_vars
    /\ [][(~authLoading /\ authLoading') => isReady]_vars

\* --- C35 --------------------------------------------------------------
\* C35: the step in which a fetchEvents call of the mounted hook completes
\* leaves loading false, and leaves the events list as it was when the
\* query failed; with a user and no call of the mounted hook in flight,
\* loading is false.
C35_FetchFailureKeepsList ==
    /\ [][\A i \in DOMAIN ops :
            (ops[i].pc = "fetch" /\ ops'[i].pc = "resolved" /\ ops[i].mounted)
               => /\ evLoading' = FALSE
                  /\ ops'[i].ext = "error" => events' = events]_vars
    /\ []((user # Null /\ (\A i \in DOMAIN ops : ops[i].mounted => ops[i].pc # "fetch"))
             => ~evLoading)
\* A refresh failed: the call has completed, loading is false and the list
\* still shows the row fetched before.
C35_Witness ==
    \E i \in DOMAIN ops :
        /\ ops[i].op = "fetch" /\ ops[i].pc = "resolved" /\ ops[i].ext = "error"
        /\ ops[i].mounted
        /\ \A j \in DOMAIN ops : j < i => ops[j].ext = "error"
        /\ events = <<InitialStore["e1"]>>
        /\ ~evLoading

\* --- C36 --------------------------------------------------------------
\* C36: loading is true until initializeAuth is called; it goes from true
\* to false only in the step in which getSession() resolves or a
\* notification reaches the listener, and both kinds of step leave it
\* false; it never goes from false to true; and once initializeAuth has
\* been called it eventually is false.
C36_LoadingClearedOnce ==
    /\ [](initial.pc = "idle" => loading)
    /\ [][(loading /\ ~loading')
            => (GetSessionResolves \/ \E s \in {NullSession} \cup Sessions : Delivered(s))]_vars
    /\ [][(GetSessionResolves \/ \E s \in {NullSession} \cup Sessions : Delivered(s))
            => ~loading']_vars
    /\ [][~loading => ~loading']_vars
    /\ (initial.pc = "pending" ~> ~loading)
\* getSession() has resolved, a sign-in and a sign-out have been notified
\* to the listener since, and loading is still false.
C36_Witness ==
    /\ initial.pc = "done"
    /\ \E i \in DOMAIN calls : calls[i].identity = "user"
    /\ signOutResult = "resolved"
    /\ subscribed /\ authEvents = <<>>
    /\ session = NullSession
    /\ ~loading
====
